---------------------------- MODULE Spec2Model ----------------------------
(***************************************************************************)
(* md2html (src/main.go): one run converts a Markdown file to a            *)
(* self-contained HTML file.  Text is a sequence of characters, each a     *)
(* string of length one; a file's content is a sequence of bytes (0..255). *)
(***************************************************************************)
EXTENDS Integers, Sequences, FiniteSets, TLC

VARIABLES
    pc,                \* the position of the run in main / convertMarkdownToHTML
    args,              \* os.Args[1:], a sequence of texts
    fontFamily,        \* *fontFamily after flag.Parse
    title,             \* *title after flag.Parse
    inputFile,         \* args[0] after flag.Parse
    outputFile,        \* main's outputFile
    inputDir,          \* filepath.Dir(inputFile), embedImages's baseDir
    fs,                \* the file system: cleaned path -> [ok, data]
    writable,          \* whether ioutil.WriteFile will succeed
    mdContent,         \* string(mdContent), the text read from the input file
    linkedContent,     \* processedContent after rewriteMarkdownLinks (line 59)
    processedContent,  \* processedContent after embedImages (line 62)
    htmlBody,          \* the renderer's output
    fullHTML,          \* createHTMLDocument's result
    reads,             \* the ioutil.ReadFile calls made so far, in order
    writes,            \* the ioutil.WriteFile calls made so far, in order
    stdout,            \* the lines printed so far, in order
    exitCode           \* the process exit status, NoExit while running

vars == <<pc, args, fontFamily, title, inputFile, outputFile, inputDir, fs,
          writable, mdContent, linkedContent, processedContent, htmlBody,
          fullHTML, reads, writes, stdout, exitCode>>

-----------------------------------------------------------------------------
(* Bounds of the model. *)

MaxLinkTokens == 3
MaxImgTokens == 2
MaxArgs == 3

-----------------------------------------------------------------------------
(* Text literals of the source. *)

HttpPrefix == <<"h", "t", "t", "p", ":", "/", "/">>
HttpsPrefix == <<"h", "t", "t", "p", "s", ":", "/", "/">>
AnchorPrefix == <<"#">>
DataPrefix == <<"d", "a", "t", "a", ":">>
MdSuffix == <<".", "m", "d">>
HtmlSuffix == <<".", "h", "t", "m", "l">>
Base64Tag == <<";", "b", "a", "s", "e", "6", "4", ",">>
NL == "\n"

-----------------------------------------------------------------------------
(* package strings *)

HasPrefix(s, p) == Len(s) >= Len(p) /\ SubSeq(s, 1, Len(p)) = p

HasSuffix(s, p) == Len(s) >= Len(p) /\ SubSeq(s, Len(s) - Len(p) + 1, Len(s)) = p

TrimSuffix(s, p) == IF HasSuffix(s, p) THEN SubSeq(s, 1, Len(s) - Len(p)) ELSE s

\* The least element of a set of indices, 0 for the empty set.
MinOrZero(S) == IF S = {} THEN 0 ELSE CHOOSE j \in S : \A k \in S : j <= k

\* The greatest element of a set of indices, 0 for the empty set.
MaxOrZero(S) == IF S = {} THEN 0 ELSE CHOOSE j \in S : \A k \in S : j >= k

\* The least index j >= i with s[j] = c, 0 when there is none.
IndexFrom(s, c, i) == MinOrZero({j \in i..Len(s) : s[j] = c})

\* The greatest index j with s[j] = c, 0 when there is none.
LastIndex(s, c) == MaxOrZero({j \in 1..Len(s) : s[j] = c})

-----------------------------------------------------------------------------
(* package regexp: the three patterns of the source.  Each pattern has one  *)
(* way to match at a given start: [^\]]* ends at the first "]" and [^)]+ at *)
(* the first ")", and a negated class matches a line break as well.         *)

NoMatch == [start |-> 0, end |-> 0]

\* ([^)]+)\) from index from, the first ")" being at e (0: none): the index
\* of the ")", 0 when the target would be empty.
TargetEnd(from, e) == IF e > from THEN e ELSE 0

\* \]\(([^)]+)\) with the first "]" at r (0: none).
ParenEnd(s, r) ==
    IF r = 0 \/ r + 1 > Len(s) THEN 0
    ELSE IF s[r + 1] # "(" THEN 0
    ELSE TargetEnd(r + 2, IndexFrom(s, ")", r + 2))

\* \[([^\]]*)\]\(([^)]+)\) at p: the index of the closing ")", 0 for none.
BracketParenEnd(s, p) ==
    IF p < 1 \/ p > Len(s) THEN 0
    ELSE IF s[p] # "[" THEN 0
    ELSE ParenEnd(s, IndexFrom(s, "]", p + 1))

\* (?m)^ at i: the start of the text or of a line.
LineStart(s, i) == i = 1 \/ (i > 1 /\ s[i - 1] = NL)

\* The end of the match of pattern re that starts at i, 0 for none.
\*   "link":      (?m)([^!])\[([^\]]*)\]\(([^)]+)\)
\*   "startLink": (?m)^\[([^\]]*)\]\(([^)]+)\)
\*   "img":       !\[([^\]]*)\]\(([^)]+)\)
MatchEnd(re, s, i) ==
    IF i < 1 \/ i > Len(s) THEN 0
    ELSE IF re = "startLink"
    THEN (IF LineStart(s, i) THEN BracketParenEnd(s, i) ELSE 0)
    ELSE IF re = "img"
    THEN (IF s[i] = "!" THEN BracketParenEnd(s, i + 1) ELSE 0)
    ELSE (IF s[i] # "!" THEN BracketParenEnd(s, i + 1) ELSE 0)

\* The match that starts at i (0: no match).
MatchAt(re, s, i) ==
    IF i = 0 THEN NoMatch ELSE [start |-> i, end |-> MatchEnd(re, s, i)]

\* The leftmost match of re in s that starts at from or later.
FindFrom(re, s, from) ==
    MatchAt(re, s, MinOrZero({i \in from..Len(s) : MatchEnd(re, s, i) > 0}))

\* The submatches of match m, whose "[" is at open and first "]" at close:
\* <<whole, prefix, text, target>> for "link", else <<whole, text, target>>.
Submatches(re, s, m, open, close) ==
    (IF re = "link" THEN <<SubSeq(s, m.start, m.end), <<s[m.start]>>>>
                    ELSE <<SubSeq(s, m.start, m.end)>>)
      \o <<SubSeq(s, open + 1, close - 1), SubSeq(s, close + 2, m.end - 1)>>

SubmatchesFrom(re, s, m, open) ==
    Submatches(re, s, m, open, IndexFrom(s, "]", open + 1))

SubmatchesOf(re, s, m) ==
    IF m.start = 0 THEN <<>>
    ELSE SubmatchesFrom(re, s, m, IF re = "startLink" THEN m.start ELSE m.start + 1)

\* FindStringSubmatch(s): the submatches of the leftmost match, <<>> for none.
FindStringSubmatch(re, s) == SubmatchesOf(re, s, FindFrom(re, s, 1))

-----------------------------------------------------------------------------
(* rewriteMarkdownLinks, lines 89-147 *)

\* Lines 112-115, 138-141: the target a matched link is written back with.
rewriteTarget(linkURL) ==
    IF HasSuffix(linkURL, MdSuffix)
    THEN TrimSuffix(linkURL, MdSuffix) \o HtmlSuffix
    ELSE linkURL

\* Lines 106-108, 132-134: the targets the link pass skips.
linkSkipped(linkURL) ==
    \/ HasPrefix(linkURL, HttpPrefix)
    \/ HasPrefix(linkURL, HttpsPrefix)
    \/ HasPrefix(linkURL, AnchorPrefix)

\* Lines 101-117, and 128-143 with an empty prefix.
linkReplacement(match, prefix, linkText, linkURL) ==
    IF linkSkipped(linkURL) THEN match
    ELSE prefix \o <<"[">> \o linkText \o <<"]", "(">>
           \o rewriteTarget(linkURL) \o <<")">>

\* Lines 96-99 and 123-126: the callbacks on their submatches.
linkParts(match, parts) ==
    IF Len(parts) < 4 THEN match
    ELSE linkReplacement(match, parts[2], parts[3], parts[4])

startLinkParts(match, parts) ==
    IF Len(parts) < 3 THEN match
    ELSE linkReplacement(match, <<>>, parts[2], parts[3])

\* Lines 94-118: the callback of linkRegex.
linkCallback(match) == linkParts(match, FindStringSubmatch("link", match))

\* Lines 122-144: the callback of startLinkRegex.
startLinkCallback(match) ==
    startLinkParts(match, FindStringSubmatch("startLink", match))

\* regexp.ReplaceAllStringFunc for the two link patterns, from index from
\* on: the matches are taken leftmost first and do not overlap.
RECURSIVE ReplaceAllLinks(_, _, _)
ReplaceLinksAt(re, s, from, m) ==
    IF m.start = 0 THEN SubSeq(s, from, Len(s))
    ELSE SubSeq(s, from, m.start - 1)
           \o (IF re = "link" THEN linkCallback(SubSeq(s, m.start, m.end))
                              ELSE startLinkCallback(SubSeq(s, m.start, m.end)))
           \o ReplaceAllLinks(re, s, m.end + 1)

ReplaceAllLinks(re, s, from) == ReplaceLinksAt(re, s, from, FindFrom(re, s, from))

rewriteMarkdownLinks(text) ==
    ReplaceAllLinks("startLink", ReplaceAllLinks("link", text, 1), 1)

-----------------------------------------------------------------------------
(* package path/filepath, on slash-separated paths *)

\* The elements of path between its "/" separators, the first "/" being at i.
RECURSIVE SplitPath(_)
SplitAt(path, i) ==
    IF i = 0 THEN <<path>>
    ELSE <<SubSeq(path, 1, i - 1)>> \o SplitPath(SubSeq(path, i + 1, Len(path)))

SplitPath(path) == SplitAt(path, IndexFrom(path, "/", 1))

\* Clean's pass over the elements: "" and "." are dropped, ".." removes the
\* element kept before it, or is dropped at the root, or is kept.
RECURSIVE CleanElems(_, _, _)
CleanElems(elems, kept, rooted) ==
    IF elems = <<>> THEN kept
    ELSE IF Head(elems) = <<>> \/ Head(elems) = <<".">>
    THEN CleanElems(Tail(elems), kept, rooted)
    ELSE IF Head(elems) # <<".", ".">>
    THEN CleanElems(Tail(elems), Append(kept, Head(elems)), rooted)
    ELSE IF kept # <<>> /\ kept[Len(kept)] # <<".", ".">>
    THEN CleanElems(Tail(elems), SubSeq(kept, 1, Len(kept) - 1), rooted)
    ELSE IF rooted THEN CleanElems(Tail(elems), kept, rooted)
    ELSE CleanElems(Tail(elems), Append(kept, Head(elems)), rooted)

RECURSIVE JoinElems(_)
JoinElems(elems) ==
    IF elems = <<>> THEN <<>>
    ELSE IF Len(elems) = 1 THEN elems[1]
    ELSE elems[1] \o <<"/">> \o JoinElems(Tail(elems))

DotIfEmpty(path) == IF path = <<>> THEN <<".">> ELSE path

CleanFrom(path, rooted) ==
    (IF rooted THEN <<"/">> ELSE <<>>)
      \o JoinElems(CleanElems(SplitPath(path), <<>>, rooted))

Clean(path) ==
    IF path = <<>> THEN <<".">> ELSE DotIfEmpty(CleanFrom(path, path[1] = "/"))

\* filepath.Join of two elements.
Join(dir, name) ==
    IF dir = <<>> /\ name = <<>> THEN <<>>
    ELSE IF dir = <<>> THEN Clean(name)
    ELSE IF name = <<>> THEN Clean(dir)
    ELSE Clean(dir \o <<"/">> \o name)

Dir(path) == Clean(SubSeq(path, 1, LastIndex(path, "/")))

\* filepath.Ext: from the last "." of the last element, "" when it has none.
Ext(path) ==
    IF LastIndex(path, ".") > LastIndex(path, "/")
    THEN SubSeq(path, LastIndex(path, "."), Len(path))
    ELSE <<>>

-----------------------------------------------------------------------------
(* strings.ToLower and strings.ReplaceAll, on the characters of the model *)

UpperCase == <<"A", "B", "C", "D", "E", "F", "G", "H", "I", "J", "K", "L", "M",
               "N", "O", "P", "Q", "R", "S", "T", "U", "V", "W", "X", "Y", "Z">>
LowerCase == <<"a", "b", "c", "d", "e", "f", "g", "h", "i", "j", "k", "l", "m",
               "n", "o", "p", "q", "r", "s", "t", "u", "v", "w", "x", "y", "z">>

ToLowerChar(c) ==
    IF \E i \in 1..Len(UpperCase) : UpperCase[i] = c
    THEN LowerCase[CHOOSE i \in 1..Len(UpperCase) : UpperCase[i] = c]
    ELSE c

ToLower(s) == [i \in 1..Len(s) |-> ToLowerChar(s[i])]

\* strings.ReplaceAll(s, old, new) for one-character old and new.
ReplaceAllChar(s, old, new) == [i \in 1..Len(s) |-> IF s[i] = old THEN new ELSE s[i]]

-----------------------------------------------------------------------------
(* getMimeType, lines 193-210 *)

mimeTypes ==
    (<<".", "j", "p", "g">> :> <<"i", "m", "a", "g", "e", "/", "j", "p", "e", "g">>)
 @@ (<<".", "j", "p", "e", "g">> :> <<"i", "m", "a", "g", "e", "/", "j", "p", "e", "g">>)
 @@ (<<".", "p", "n", "g">> :> <<"i", "m", "a", "g", "e", "/", "p", "n", "g">>)
 @@ (<<".", "g", "i", "f">> :> <<"i", "m", "a", "g", "e", "/", "g", "i", "f">>)
 @@ (<<".", "b", "m", "p">> :> <<"i", "m", "a", "g", "e", "/", "b", "m", "p">>)
 @@ (<<".", "w", "e", "b", "p">> :> <<"i", "m", "a", "g", "e", "/", "w", "e", "b", "p">>)
 @@ (<<".", "s", "v", "g">>
       :> <<"i", "m", "a", "g", "e", "/", "s", "v", "g", "+", "x", "m", "l">>)
 @@ (<<".", "i", "c", "o">>
       :> <<"i", "m", "a", "g", "e", "/", "x", "-", "i", "c", "o", "n">>)

\* Lines 206-209: the table's entry, or the default.
mimeOf(ext) ==
    IF ext \in DOMAIN mimeTypes THEN mimeTypes[ext]
    ELSE <<"i", "m", "a", "g", "e", "/", "p", "n", "g">>

\* The table looked up with the extension as it is written.
getMimeTypeAsWritten(filename) == mimeOf(Ext(filename))

getMimeType(filename) == mimeOf(ToLower(Ext(filename)))

-----------------------------------------------------------------------------
(* encoding/base64, StdEncoding *)

encodeStd ==
    <<"A", "B", "C", "D", "E", "F", "G", "H", "I", "J", "K", "L", "M", "N", "O", "P",
      "Q", "R", "S", "T", "U", "V", "W", "X", "Y", "Z", "a", "b", "c", "d", "e", "f",
      "g", "h", "i", "j", "k", "l", "m", "n", "o", "p", "q", "r", "s", "t", "u", "v",
      "w", "x", "y", "z", "0", "1", "2", "3", "4", "5", "6", "7", "8", "9", "+", "/">>

\* The character of a 6-bit value.
Sextet(n) == encodeStd[n + 1]

\* Three bytes give four characters; a last group of one or two bytes is
\* padded with "=".
RECURSIVE EncodeToString(_)
EncodeToString(b) ==
    IF Len(b) = 0 THEN <<>>
    ELSE IF Len(b) = 1
    THEN <<Sextet(b[1] \div 4), Sextet((b[1] % 4) * 16), "=", "=">>
    ELSE IF Len(b) = 2
    THEN <<Sextet(b[1] \div 4), Sextet((b[1] % 4) * 16 + b[2] \div 16),
           Sextet((b[2] % 16) * 4), "=">>
    ELSE <<Sextet(b[1] \div 4), Sextet((b[1] % 4) * 16 + b[2] \div 16),
           Sextet((b[2] % 16) * 4 + b[3] \div 64), Sextet(b[3] % 64)>>
           \o EncodeToString(SubSeq(b, 4, Len(b)))

-----------------------------------------------------------------------------
(* The file system *)

ReadError == [ok |-> FALSE, data |-> <<>>]

\* The file at a cleaned path, or an error.
FileAt(files, p) ==
    IF p \in DOMAIN files THEN (IF files[p].ok THEN files[p] ELSE ReadError)
    ELSE ReadError

\* ioutil.ReadFile(path) on the files: the file's data, or an error.
ReadFile(files, path) == FileAt(files, Clean(path))

-----------------------------------------------------------------------------
(* embedImages, lines 149-191 *)

\* The skip of remote images alone.
imgSkippedRemote(imgPath) ==
    \/ HasPrefix(imgPath, HttpPrefix)
    \/ HasPrefix(imgPath, HttpsPrefix)

\* Lines 164-166: the targets the image pass skips.
imgSkipped(imgPath) ==
    \/ HasPrefix(imgPath, HttpPrefix)
    \/ HasPrefix(imgPath, HttpsPrefix)
    \/ HasPrefix(imgPath, DataPrefix)

\* Line 185.
dataURI(mimeType, base64Data) == DataPrefix \o mimeType \o Base64Tag \o base64Data

\* Lines 180-187: the reference an image is replaced with once its file is read.
imgReplacement(altText, imgPath, imgData) ==
    <<"!", "[">> \o altText \o <<"]", "(">>
      \o dataURI(getMimeType(imgPath), EncodeToString(imgData)) \o <<")">>

\* A callback's result: the replacement, the file read and the line printed.
Quiet(match) == [text |-> match, reads |-> <<>>, out |-> <<>>]

\* A read whose failure drops the reference.
imgReadDropping(match, altText, imgPath, fullPath, got) ==
    [text |-> IF got.ok THEN imgReplacement(altText, imgPath, got.data) ELSE <<>>,
     reads |-> <<[path |-> fullPath, for |-> imgPath]>>,
     out |-> <<>>]

\* Lines 174-187: after ioutil.ReadFile(fullPath) has returned got.
imgRead(match, altText, imgPath, fullPath, got) ==
    IF ~got.ok
    THEN [text |-> match,
          reads |-> <<[path |-> fullPath, for |-> imgPath]>>,
          out |-> <<[kind |-> "warning", what |-> imgPath]>>]
    ELSE [text |-> imgReplacement(altText, imgPath, got.data),
          reads |-> <<[path |-> fullPath, for |-> imgPath]>>,
          out |-> <<>>]

\* Lines 160-187.
imgReference(match, altText, imgPath, baseDir, files) ==
    IF imgSkipped(imgPath) THEN Quiet(match)
    ELSE imgRead(match, altText, imgPath, Join(baseDir, imgPath),
                 ReadFile(files, Join(baseDir, imgPath)))

\* Lines 155-161: the callback on its submatches.
imgParts(match, parts, baseDir, files) ==
    IF Len(parts) < 3 THEN Quiet(match)
    ELSE imgReference(match, parts[2], parts[3], baseDir, files)

\* Lines 153-188: the callback of imgRegex.
imgCallback(match, baseDir, files) ==
    imgParts(match, FindStringSubmatch("img", match), baseDir, files)

\* regexp.ReplaceAllStringFunc for imgRegex, from index from on, with the
\* callbacks' file reads and printed lines in the order of the calls.
RECURSIVE ReplaceAllImages(_, _, _, _)
ReplacedImage(s, from, m, c, rest) ==
    [text |-> SubSeq(s, from, m.start - 1) \o c.text \o rest.text,
     reads |-> c.reads \o rest.reads,
     out |-> c.out \o rest.out]

ReplaceImagesAt(s, from, baseDir, files, m) ==
    IF m.start = 0 THEN Quiet(SubSeq(s, from, Len(s)))
    ELSE ReplacedImage(s, from, m,
                       imgCallback(SubSeq(s, m.start, m.end), baseDir, files),
                       ReplaceAllImages(s, m.end + 1, baseDir, files))

ReplaceAllImages(s, from, baseDir, files) ==
    ReplaceImagesAt(s, from, baseDir, files, FindFrom("img", s, from))

\* Line 190: embedImages returns (result, nil); err is never set.
embedResult(r) == [result |-> r.text, err |-> FALSE, reads |-> r.reads, out |-> r.out]

embedImages(text, baseDir, files) ==
    embedResult(ReplaceAllImages(text, 1, baseDir, files))

-----------------------------------------------------------------------------
(* The renderer (gomarkdown, lines 68-76) and createHTMLDocument, 212-345 *)

\* The renderer is a library outside the repository: its output is kept as
\* the rendered text between two marks.
Render(text) == <<"<rendered>">> \o text \o <<"</rendered>">>

\* The template's fixed parts are single marks; the four %s are filled with
\* title, fontURL, fontFamily and body, in this order.
createHTMLDocument(body, font, ttl) ==
    <<"<!DOCTYPE html>..<title>">> \o ttl
      \o <<"</title>..css2?family=">> \o ReplaceAllChar(font, " ", "+")
      \o <<":wght@300;400;600;700..font-family: '">> \o font
      \o <<"', sans-serif;..<body>">> \o body
      \o <<"</body></html>">>

-----------------------------------------------------------------------------
(* package flag: flag.Parse with the two string flags of lines 19-20 *)

FontFlag == <<"f", "o", "n", "t">>
TitleFlag == <<"t", "i", "t", "l", "e">>
HelpNames == {<<"h">>, <<"h", "e", "l", "p">>}
DefaultFont == <<"O", "p", "e", "n", " ", "S", "a", "n", "s">>

\* FlagSet.Parse: parseOne until the first non-flag argument, "--", or an
\* error.  status is "ok", "help" (-h or -help, not defined) or "error" (a
\* flag that is not defined, bad syntax, or a flag without its value).
Parsed(status, font, ttl, rest) ==
    [status |-> status, font |-> font, title |-> ttl, rest |-> rest]

RECURSIVE FlagParse(_, _, _)

\* parseOne, once the flag is known to be defined and to have its value.
FlagSet(name, value, left, font, ttl) ==
    FlagParse(left, IF name = FontFlag THEN value ELSE font,
                    IF name = TitleFlag THEN value ELSE ttl)

\* parseOne on a flag spelled name[=value], "=" being at eq (0: none), with
\* the arguments rest after it.
FlagNamed(spelled, eq, name, rest, font, ttl) ==
    IF name \notin {FontFlag, TitleFlag}
    THEN Parsed(IF name \in HelpNames THEN "help" ELSE "error", font, ttl, <<>>)
    ELSE IF eq > 0
    THEN FlagSet(name, SubSeq(spelled, eq + 1, Len(spelled)), rest, font, ttl)
    ELSE IF rest = <<>> THEN Parsed("error", font, ttl, <<>>)
    ELSE FlagSet(name, Head(rest), Tail(rest), font, ttl)

FlagSpelled(spelled, eq, rest, font, ttl) ==
    FlagNamed(spelled, eq,
              IF eq > 0 THEN SubSeq(spelled, 1, eq - 1) ELSE spelled,
              rest, font, ttl)

\* parseOne on an argument "-..." or "--..." without its minus signs.
FlagArg(spelled, rest, font, ttl) ==
    IF Len(spelled) = 0 THEN Parsed("error", font, ttl, <<>>)
    ELSE IF spelled[1] = "-" \/ spelled[1] = "=" THEN Parsed("error", font, ttl, <<>>)
    ELSE FlagSpelled(spelled, IndexFrom(spelled, "=", 2), rest, font, ttl)

FlagParse(a, font, ttl) ==
    IF a = <<>> THEN Parsed("ok", font, ttl, a)
    ELSE IF Len(Head(a)) < 2 THEN Parsed("ok", font, ttl, a)
    ELSE IF Head(a)[1] # "-" THEN Parsed("ok", font, ttl, a)
    ELSE IF Head(a) = <<"-", "-">> THEN Parsed("ok", font, ttl, Tail(a))
    ELSE FlagArg(SubSeq(Head(a), IF Head(a)[2] = "-" THEN 3 ELSE 2, Len(Head(a))),
                 Tail(a), font, ttl)

\* flag.CommandLine exits on a parse error (ExitOnError): with status 2, and
\* for -h / -help with status 0 (a Go toolchain before 1.15: 2).
FlagErrorExit == {2}
FlagHelpExit == {0, 2}

-----------------------------------------------------------------------------
(* main, lines 18-46 *)

Line(kind, what) == [kind |-> kind, what |-> what]

\* A check that takes any name.
validInputAny(name) == Len(name) >= 0

\* Line 33: the check of the input file's name.
validInput(name) == HasSuffix(name, MdSuffix)

\* Lines 23-38 on flag.Args(): the usage error, the extension error, or the
\* input and output file names.
mainArgs(rest) ==
    IF Len(rest) < 1
    THEN [exit |-> 1, out |-> <<Line("usage", <<>>)>>,
          inputFile |-> <<>>, outputFile |-> <<>>]
    ELSE IF ~validInput(rest[1])
    THEN [exit |-> 1, out |-> <<Line("error", <<"Input file must have .md extension">>)>>,
          inputFile |-> rest[1], outputFile |-> <<>>]
    ELSE [exit |-> -1, out |-> <<>>,
          inputFile |-> rest[1],
          outputFile |-> TrimSuffix(rest[1], MdSuffix) \o HtmlSuffix]

\* A main that takes every conversion for a success.
reportSuccess(err, input, output) ==
    [exit |-> 0, out |-> <<Line("success", input \o <<" to ">> \o output)>>]

\* Lines 40-45: what main does with convertMarkdownToHTML's error (<<>> is nil).
report(err, input, output) ==
    IF err # <<>>
    THEN [exit |-> 1, out |-> <<Line("error", err)>>]
    ELSE [exit |-> 0, out |-> <<Line("success", input \o <<" to ">> \o output)>>]

\* A conversion that embeds the images before it rewrites the links.
afterSwapped(step) ==
    CASE step = "read" -> "images"
      [] step = "images" -> "links"
      [] step = "links" -> "render"
      [] step = "render" -> "assemble"
      [] step = "assemble" -> "write"

\* The step of convertMarkdownToHTML that follows a step, lines 48-87.
after(step) ==
    CASE step = "read" -> "links"
      [] step = "links" -> "images"
      [] step = "images" -> "render"
      [] step = "render" -> "assemble"
      [] step = "assemble" -> "write"

-----------------------------------------------------------------------------
(* The actions: main up to its call of convertMarkdownToHTML, then one      *)
(* action per step of convertMarkdownToHTML; the step that fails returns    *)
(* the error to main, which reports it and exits.                           *)

Exit(code, lines) ==
    /\ pc' = "exited"
    /\ exitCode' = code
    /\ stdout' = stdout \o lines

\* Lines 23-38, flag.Args() being parsed.rest.
MainArgs(parsed, m) ==
    /\ fontFamily' = parsed.font
    /\ title' = parsed.title
    /\ inputFile' = m.inputFile
    /\ outputFile' = m.outputFile
    /\ IF m.exit # -1 THEN Exit(m.exit, m.out)
       ELSE pc' = "read" /\ UNCHANGED <<exitCode, stdout>>

\* Line 21, then lines 23-38.
MainParsed(parsed) ==
    IF parsed.status # "ok"
    THEN /\ \E code \in (IF parsed.status = "help" THEN FlagHelpExit
                                                   ELSE FlagErrorExit) :
               Exit(code, <<>>)
         /\ UNCHANGED <<fontFamily, title, inputFile, outputFile>>
    ELSE MainArgs(parsed, mainArgs(parsed.rest))

Main ==
    /\ pc = "main"
    /\ MainParsed(FlagParse(args, DefaultFont, <<>>))
    /\ UNCHANGED <<args, inputDir, fs, writable, mdContent, linkedContent,
                   processedContent, htmlBody, fullHTML, reads, writes>>

\* A step's error goes back to main, lines 40-43.
Fail(r) == Exit(r.exit, r.out)

\* Lines 50-56, ioutil.ReadFile(inputFile) having returned got.
ReadGot(got) ==
    IF ~got.ok
    THEN /\ Fail(report(<<"failed to read input file">>, inputFile, outputFile))
         /\ UNCHANGED <<mdContent, inputDir>>
    ELSE /\ mdContent' = got.data
         /\ inputDir' = Dir(inputFile)
         /\ pc' = after("read")
         /\ UNCHANGED <<exitCode, stdout>>

ReadInput ==
    /\ pc = "read"
    /\ reads' = Append(reads, [path |-> inputFile, for |-> inputFile])
    /\ ReadGot(ReadFile(fs, inputFile))
    /\ UNCHANGED <<args, fontFamily, title, inputFile, outputFile, fs, writable,
                   linkedContent, processedContent, htmlBody, fullHTML, writes>>

\* Line 59.
RewriteLinks ==
    /\ pc = "links"
    /\ linkedContent' = rewriteMarkdownLinks(mdContent)
    /\ pc' = after("links")
    /\ UNCHANGED <<args, fontFamily, title, inputFile, outputFile, inputDir, fs,
                   writable, mdContent, processedContent, htmlBody, fullHTML,
                   reads, writes, stdout, exitCode>>

\* Lines 62-65, embedImages having returned e.
Embedded(e) ==
    /\ reads' = reads \o e.reads
    /\ IF e.err
       THEN /\ pc' = "exited"
            /\ exitCode' = report(<<"failed to process images">>, inputFile, outputFile).exit
            /\ stdout' = stdout \o e.out
                 \o report(<<"failed to process images">>, inputFile, outputFile).out
            /\ UNCHANGED processedContent
       ELSE /\ processedContent' = e.result
            /\ stdout' = stdout \o e.out
            /\ pc' = after("images")
            /\ UNCHANGED exitCode

EmbedImages ==
    /\ pc = "images"
    /\ Embedded(embedImages(linkedContent, inputDir, fs))
    /\ UNCHANGED <<args, fontFamily, title, inputFile, outputFile, inputDir, fs,
                   writable, mdContent, linkedContent, htmlBody, fullHTML, writes>>

\* Lines 68-76.
RenderBody ==
    /\ pc = "render"
    /\ htmlBody' = Render(processedContent)
    /\ pc' = after("render")
    /\ UNCHANGED <<args, fontFamily, title, inputFile, outputFile, inputDir, fs,
                   writable, mdContent, linkedContent, processedContent, fullHTML,
                   reads, writes, stdout, exitCode>>

\* Line 79.
Assemble ==
    /\ pc = "assemble"
    /\ fullHTML' = createHTMLDocument(htmlBody, fontFamily, title)
    /\ pc' = after("assemble")
    /\ UNCHANGED <<args, fontFamily, title, inputFile, outputFile, inputDir, fs,
                   writable, mdContent, linkedContent, processedContent, htmlBody,
                   reads, writes, stdout, exitCode>>

\* ioutil.WriteFile(path, data): the files once data is written at path.
WriteFile(files, path, data) ==
    [p \in DOMAIN files \cup {path} |->
        IF p = path THEN [ok |-> TRUE, data |-> data] ELSE files[p]]

\* Lines 82-86, and main's lines 40-45 on the result.
WriteOutput ==
    /\ pc = "write"
    /\ writes' = Append(writes, [path |-> outputFile, data |-> fullHTML])
    /\ IF writable
       THEN /\ fs' = WriteFile(fs, Clean(outputFile), fullHTML)
            /\ Fail(report(<<>>, inputFile, outputFile))
       ELSE /\ fs' = fs
            /\ Fail(report(<<"failed to write output file">>, inputFile, outputFile))
    /\ UNCHANGED <<args, fontFamily, title, inputFile, outputFile, inputDir,
                   writable, mdContent, linkedContent, processedContent, htmlBody,
                   fullHTML, reads>>

-----------------------------------------------------------------------------
(* The inputs of the model *)

\* A text that no step has produced yet.
Unset == <<"<unset>">>

Link(text, target) == <<"[">> \o text \o <<"]", "(">> \o target \o <<")">>
Image(alt, target) == <<"!">> \o Link(alt, target)

\* The concatenations of at most n of the tokens.
RECURSIVE Concats(_, _)
OneMore(tokens, shorter) == shorter \cup {t \o u : t \in tokens, u \in shorter}

Concats(tokens, n) ==
    IF n = 0 THEN {<<>>} ELSE OneMore(tokens, Concats(tokens, n - 1))

PageMd == <<"p">> \o MdSuffix
QPng == <<"q", ".", "p", "n", "g">>
RGif == <<"r", ".", "g", "i", "f">>
HashPng == <<"#", "q", ".", "p", "n", "g">>
RemotePng == HttpPrefix \o <<"h", "/">> \o QPng
InlinePng == DataPrefix \o <<"i", "m", "a", "g", "e", "/", "p", "n", "g">>
               \o Base64Tag \o <<"T", "Q", "=", "=">>

\* Link rewriter: plain characters, links of every class of target, and an
\* unclosed link, so that links follow each other, an image, a line break,
\* or sit inside another link's text or target.
LinkTokens ==
    { <<"x">>, <<NL>>, <<"!">>, <<"[">>,
      Link(<<"a">>, PageMd),
      Link(<<"a">>, QPng),
      Link(<<"a">>, AnchorPrefix \o <<"s">> \o MdSuffix),
      Link(<<"a">>, HttpPrefix \o <<"h">> \o MdSuffix),
      Link(<<"a">>, HttpsPrefix \o <<"h">> \o MdSuffix),
      Link(<<"a">>, DataPrefix \o <<"d">> \o MdSuffix),
      <<"[", "a", "]", "(">> \o HttpPrefix }

LinkTexts == Concats(LinkTokens, MaxLinkTokens)

\* Image embedder: local targets of every extension of the table, in upper
\* case, unknown, without extension, with a dot in a directory only, to be
\* cleaned by Join, starting with "#", and the targets it skips.
ImgLocalTargets ==
    { QPng, RGif, HashPng,
      <<"Q", ".", "P", "n", "G">>,
      <<"q", ".", "j", "p", "g">>,
      <<"q", ".", "J", "P", "E", "G">>,
      <<"q", ".", "b", "m", "p">>,
      <<"q", ".", "w", "e", "b", "p">>,
      <<"q", ".", "s", "v", "g">>,
      <<"q", ".", "i", "c", "o">>,
      <<"q", ".", "t", "x", "t">>,
      <<"q">>,
      <<"v", ".", "g", "i", "f", "/", "q">>,
      <<".", "/", "s", "/", ".", ".", "/">> \o QPng }

ImgSkippedTargets ==
    { RemotePng, HttpsPrefix \o <<"h", "/">> \o RGif, InlinePng }

ImgTokens ==
    { <<"x">> } \cup {Image(<<"a">>, t) : t \in ImgLocalTargets \cup ImgSkippedTargets}

ImgTexts == Concats(ImgTokens, MaxImgTokens)

ImgDirs == { <<".">>, <<"d">> }

\* The bytes of an image file: every length modulo 3, low and high bytes.
LongData == <<255, 0, 16, 131>>
ImageData == { <<>>, <<77>>, <<77, 97>>, <<77, 97, 110>>, LongData }

\* The files that may be missing.
Missable == { QPng, RGif }
ImgMissable == { RGif }

\* The image files under dir: every local target names a file holding data,
\* but for the missing ones.
ImageFiles(dir, data, missing) ==
    [p \in {Join(dir, t) : t \in ImgLocalTargets} |->
        IF \E t \in missing : Join(dir, t) = p THEN ReadError
        ELSE [ok |-> TRUE, data |-> data]]

\* The command lines.
ArgTokens ==
    { <<"-", "-", "f", "o", "n", "t">>,
      <<"-", "t", "i", "t", "l", "e", "=", "T">>,
      <<"-", "h">>,
      <<"-", "-", "b", "o", "g", "u", "s">>,
      <<"a">> \o MdSuffix,
      <<"d", "/", "b">> \o MdSuffix,
      <<"c", ".", "t", "x", "t">> }

ArgLists(n) == Concats({<<t>> : t \in ArgTokens}, n)

\* The documents of a run.
DocTexts ==
    { <<>>,
      <<"x">> \o Link(<<"a">>, PageMd) \o Image(<<"i">>, QPng),
      Image(<<"i">>, QPng) \o <<NL>> \o Image(<<"j">>, RGif),
      Image(<<"i">>, RemotePng) \o Image(<<"j">>, RGif) \o Image(<<"k">>, InlinePng),
      Link(<<"a">>, DataPrefix \o <<"d">> \o MdSuffix) \o Image(<<"i">>, HashPng) }

\* The input files of a run hold the document, or cannot be read.
DocFiles(doc, readable) ==
    [p \in { <<"a">> \o MdSuffix, <<"d", "/", "b">> \o MdSuffix } |->
        IF readable THEN [ok |-> TRUE, data |-> doc] ELSE ReadError]

-----------------------------------------------------------------------------
(* The specifications *)

\* Nothing rendered, read, written or printed yet, and no exit status.
Blank ==
    /\ fontFamily = DefaultFont
    /\ title = <<>>
    /\ processedContent = Unset
    /\ htmlBody = Unset
    /\ fullHTML = Unset
    /\ reads = <<>>
    /\ writes = <<>>
    /\ stdout = <<>>
    /\ exitCode = -1

\* A run of the program: the command line and the files it finds.
Init ==
    /\ pc = "main"
    /\ args \in ArgLists(MaxArgs)
    /\ inputFile = <<>>
    /\ outputFile = <<>>
    /\ inputDir = <<>>
    /\ \E doc \in DocTexts, readable \in BOOLEAN, missing \in SUBSET Missable :
          /\ (~readable => doc = <<>>)
          /\ fs = DocFiles(doc, readable)
                    @@ ImageFiles(<<".">>, <<77, 97, 110>>, missing)
                    @@ ImageFiles(<<"d">>, <<255, 0>>, missing)
    /\ writable \in BOOLEAN
    /\ mdContent = Unset
    /\ linkedContent = Unset
    /\ Blank

Next ==
    \/ Main
    \/ ReadInput
    \/ RewriteLinks
    \/ EmbedImages
    \/ RenderBody
    \/ Assemble
    \/ WriteOutput

Spec == Init /\ [][Next]_vars

\* rewriteMarkdownLinks on every text of LinkTexts.
InitLinks ==
    /\ pc = "links"
    /\ args = <<>>
    /\ inputFile = <<"a">> \o MdSuffix
    /\ outputFile = <<"a">> \o HtmlSuffix
    /\ inputDir = <<".">>
    /\ fs = DocFiles(<<>>, FALSE)
    /\ writable = TRUE
    /\ mdContent \in LinkTexts
    /\ linkedContent = Unset
    /\ Blank

NextLinks == RewriteLinks

SpecLinks == InitLinks /\ [][NextLinks]_vars

\* embedImages on every text of ImgTexts, with any of ImgMissable missing:
\* in the current directory with the image files holding any of ImageData,
\* in another directory with the image files holding LongData.
InitImages ==
    /\ pc = "images"
    /\ args = <<>>
    /\ inputDir \in ImgDirs
    /\ inputFile = Join(inputDir, <<"a">> \o MdSuffix)
    /\ outputFile = Join(inputDir, <<"a">> \o HtmlSuffix)
    /\ \E data \in ImageData, missing \in SUBSET ImgMissable :
          /\ (inputDir # <<".">> => data = LongData)
          /\ fs = ImageFiles(inputDir, data, missing)
    /\ writable = TRUE
    /\ mdContent = Unset
    /\ linkedContent \in ImgTexts
    /\ Blank

NextImages == EmbedImages

SpecImages == InitImages /\ [][NextImages]_vars

-----------------------------------------------------------------------------
(* The vocabulary of the claims.  A reference is `[text](target)`, text     *)
(* without "]" and target non-empty and without ")".  A link is a reference *)
(* not immediately preceded by "!"; an image is "!" and a reference.  The   *)
(* links (images) of a text are its candidate links (images) taken leftmost *)
(* first and not overlapping (spec 4.1, 4.2).                               *)

Ref(s, from, open, close, end) ==
    [start |-> from, end |-> end, whole |-> SubSeq(s, from, end),
     text |-> SubSeq(s, open + 1, close - 1),
     target |-> SubSeq(s, close + 2, end - 1)]

RefAt(s, from, open) ==
    Ref(s, from, open, IndexFrom(s, "]", open + 1), BracketParenEnd(s, open))

IsLinkAt(s, p) ==
    /\ BracketParenEnd(s, p) > 0
    /\ (p = 1 \/ s[p - 1] # "!")

IsImageAt(s, p) ==
    /\ p <= Len(s)
    /\ s[p] = "!"
    /\ BracketParenEnd(s, p + 1) > 0

RECURSIVE LinksFrom(_, _)
LinksFrom(s, p) ==
    IF p > Len(s) THEN <<>>
    ELSE IF IsLinkAt(s, p)
    THEN <<RefAt(s, p, p)>> \o LinksFrom(s, BracketParenEnd(s, p) + 1)
    ELSE LinksFrom(s, p + 1)

RECURSIVE ImagesFrom(_, _)
ImagesFrom(s, p) ==
    IF p > Len(s) THEN <<>>
    ELSE IF IsImageAt(s, p)
    THEN <<RefAt(s, p, p + 1)>> \o ImagesFrom(s, BracketParenEnd(s, p + 1) + 1)
    ELSE ImagesFrom(s, p + 1)

LinksOf(s) == LinksFrom(s, 1)
ImagesOf(s) == ImagesFrom(s, 1)

\* The text before the first reference, between the references, and after
\* the last.
Gaps(s, refs) ==
    [k \in 1..(Len(refs) + 1) |->
        SubSeq(s, IF k = 1 THEN 1 ELSE refs[k - 1].end + 1,
                  IF k > Len(refs) THEN Len(s) ELSE refs[k].start - 1)]

\* The references of in and out stand at corresponding places: as many, with
\* the same text around them.
SamePlaces(in, ins, out, outs) ==
    /\ Len(ins) = Len(outs)
    /\ Gaps(in, ins) = Gaps(out, outs)

\* The classes of a target (spec 3).
IsHttpURL(t) == HasPrefix(t, HttpPrefix) \/ HasPrefix(t, HttpsPrefix)
IsAnchor(t) == HasPrefix(t, AnchorPrefix)
IsDataURI(t) == HasPrefix(t, DataPrefix)
IsLocalPath(t) == ~IsHttpURL(t) /\ ~IsAnchor(t) /\ ~IsDataURI(t)

\* The steps that have run.
Linked == linkedContent # Unset
ImagesEmbedded == processedContent # Unset
Exited == pc = "exited"

-----------------------------------------------------------------------------
(* The link rewriter (claims C1, C2, C9), over SpecLinks.                   *)

\* The k-th reference of outs is the text `whole`.
KthIs(outs, k, whole) ==
    /\ k <= Len(outs)
    /\ outs[k].whole = whole

\* The k-th reference of outs is the k-th of ins, character for character.
KthKept(ins, outs, k) == KthIs(outs, k, ins[k].whole)

\* A link the rewriter is to change, and what it is to become.
IsMdLink(r) ==
    /\ ~IsHttpURL(r.target)
    /\ ~IsAnchor(r.target)
    /\ HasSuffix(r.target, MdSuffix)

HtmlLink(r) ==
    <<"[">> \o r.text \o <<"]", "(">>
        \o SubSeq(r.target, 1, Len(r.target) - Len(MdSuffix)) \o HtmlSuffix
        \o <<")">>

MdLinksRewritten(in, ins, out, outs) ==
    /\ SamePlaces(in, ins, out, outs)
    /\ \A k \in DOMAIN ins : IsMdLink(ins[k]) => KthIs(outs, k, HtmlLink(ins[k]))

\* C1: after rewriteMarkdownLinks every link of the input whose target does
\* not start with http://, https:// or # and ends with .md has `.html` for
\* that final `.md`, with its text, the rest of the target and the text
\* around the links unchanged; this includes a link that directly follows
\* the ")" of another link.
C1_EveryMdLinkRewritten ==
    Linked => MdLinksRewritten(mdContent, LinksOf(mdContent),
                               linkedContent, LinksOf(linkedContent))

\* A rewritten link that directly follows the ")" of another link.
C1_AdjacentLinks ==
    /\ Linked
    /\ \E k \in DOMAIN LinksOf(mdContent) :
          /\ k > 1
          /\ IsMdLink(LinksOf(mdContent)[k])
          /\ LinksOf(mdContent)[k].start = LinksOf(mdContent)[k - 1].end + 1
          /\ KthIs(LinksOf(linkedContent), k, HtmlLink(LinksOf(mdContent)[k]))

ImagesKept(ins, outs) == \A k \in DOMAIN ins : KthKept(ins, outs, k)

\* C2: rewriteMarkdownLinks leaves every image of its input unchanged,
\* character for character, whatever the image's target and wherever the
\* image stands, the text of a link included.
C2_ImagesUntouchedByRewriter ==
    Linked => ImagesKept(ImagesOf(mdContent), ImagesOf(linkedContent))

\* An image with a .md target went through the rewriter unchanged.
C2_MdImageKept ==
    /\ Linked
    /\ \E k \in DOMAIN ImagesOf(mdContent) :
          /\ HasSuffix(ImagesOf(mdContent)[k].target, MdSuffix)
          /\ KthKept(ImagesOf(mdContent), ImagesOf(linkedContent), k)

IsSkippedLink(r) == IsHttpURL(r.target) \/ IsAnchor(r.target)

SkippedLinksKept(in, ins, out, outs) ==
    /\ \A k \in DOMAIN ins : IsSkippedLink(ins[k]) => KthKept(ins, outs, k)
    /\ (\A k \in DOMAIN ins : IsSkippedLink(ins[k])) => out = in

\* C9: a link whose target starts with http://, https:// or # leaves
\* rewriteMarkdownLinks unchanged, character for character; a text all of
\* whose links are such comes back unchanged; and such a link is unchanged
\* by embedImages as well.
C9_SkippedLinksUntouched ==
    /\ Linked => SkippedLinksKept(mdContent, LinksOf(mdContent),
                                  linkedContent, LinksOf(linkedContent))
    /\ ImagesEmbedded =>
          \A k \in DOMAIN LinksOf(linkedContent) :
              IsSkippedLink(LinksOf(linkedContent)[k]) =>
                  KthKept(LinksOf(linkedContent), LinksOf(processedContent), k)

\* A link with an http://, https:// or # target ending in .md went through
\* the rewriter unchanged.
C9_SkippedMdLinkKept ==
    /\ Linked
    /\ \E k \in DOMAIN LinksOf(mdContent) :
          /\ IsSkippedLink(LinksOf(mdContent)[k])
          /\ HasSuffix(LinksOf(mdContent)[k].target, MdSuffix)
          /\ KthKept(LinksOf(mdContent), LinksOf(linkedContent), k)

-----------------------------------------------------------------------------
(* The classes of targets in the two passes (claim C5), over Spec.          *)

Readable(files, path) == ReadFile(files, path).ok

KthChanged(ins, outs, k) == ~KthKept(ins, outs, k)

LinkPassByClass(ins, outs) ==
    \A k \in DOMAIN ins :
        KthChanged(ins, outs, k)
            <=> (IsLocalPath(ins[k].target) /\ HasSuffix(ins[k].target, MdSuffix))

ImagePassByClass(ins, outs, baseDir, files) ==
    \A k \in DOMAIN ins :
        KthChanged(ins, outs, k)
            <=> (/\ IsLocalPath(ins[k].target)
                 /\ Readable(files, Join(baseDir, ins[k].target)))

\* C5: in both passes a target is changed if and only if it is a local
\* relative path (it starts with none of http://, https://, #, data:) that
\* meets the pass's condition: a link's target ends with .md, an image's
\* target resolves to a readable file.  A link target data:x.md is not
\* rewritten and an image target starting with # is not embedded.
C5_ChangedIffLocal ==
    /\ Linked => LinkPassByClass(LinksOf(mdContent), LinksOf(linkedContent))
    /\ ImagesEmbedded =>
          ImagePassByClass(ImagesOf(linkedContent), ImagesOf(processedContent),
                           inputDir, fs)

\* Both passes have changed a local target and kept a target of another
\* class.
C5_BothPassesRan ==
    /\ ImagesEmbedded
    /\ \E k \in DOMAIN ImagesOf(linkedContent) :
          /\ IsLocalPath(ImagesOf(linkedContent)[k].target)
          /\ KthChanged(ImagesOf(linkedContent), ImagesOf(processedContent), k)
    /\ \E k \in DOMAIN ImagesOf(linkedContent) :
          /\ ~IsLocalPath(ImagesOf(linkedContent)[k].target)
          /\ KthKept(ImagesOf(linkedContent), ImagesOf(processedContent), k)

-----------------------------------------------------------------------------
(* The image embedder (claims C3, C10), over SpecImages.                    *)

\* The table of claim C3, extension and MIME type.
MimeTable ==
    { <<<<".", "j", "p", "g">>,
        <<"i", "m", "a", "g", "e", "/", "j", "p", "e", "g">>>>,
      <<<<".", "j", "p", "e", "g">>,
        <<"i", "m", "a", "g", "e", "/", "j", "p", "e", "g">>>>,
      <<<<".", "p", "n", "g">>,
        <<"i", "m", "a", "g", "e", "/", "p", "n", "g">>>>,
      <<<<".", "g", "i", "f">>,
        <<"i", "m", "a", "g", "e", "/", "g", "i", "f">>>>,
      <<<<".", "b", "m", "p">>,
        <<"i", "m", "a", "g", "e", "/", "b", "m", "p">>>>,
      <<<<".", "w", "e", "b", "p">>,
        <<"i", "m", "a", "g", "e", "/", "w", "e", "b", "p">>>>,
      <<<<".", "s", "v", "g">>,
        <<"i", "m", "a", "g", "e", "/", "s", "v", "g", "+", "x", "m", "l">>>>,
      <<<<".", "i", "c", "o">>,
        <<"i", "m", "a", "g", "e", "/", "x", "-", "i", "c", "o", "n">>>> }

\* The extension of a target: from the last "." of its last path element.
Extension(t) ==
    IF LastIndex(t, ".") > LastIndex(t, "/")
    THEN SubSeq(t, LastIndex(t, "."), Len(t))
    ELSE <<>>

ExpectedMime(t) ==
    IF \E row \in MimeTable : row[1] = ToLower(Extension(t))
    THEN (CHOOSE row \in MimeTable : row[1] = ToLower(Extension(t)))[2]
    ELSE <<"i", "m", "a", "g", "e", "/", "p", "n", "g">>

\* Base64 read back: the value of a character of the standard alphabet, and
\* the bytes of groups of four characters.
Base64Alphabet ==
    UpperCase \o LowerCase
        \o <<"0", "1", "2", "3", "4", "5", "6", "7", "8", "9", "+", "/">>

Base64Value(c) == (CHOOSE i \in 1..Len(Base64Alphabet) : Base64Alphabet[i] = c) - 1

IsBase64Text(b) ==
    /\ Len(b) % 4 = 0
    /\ \A i \in 1..Len(b) :
          \/ \E j \in 1..Len(Base64Alphabet) : Base64Alphabet[j] = b[i]
          \/ b[i] = "=" /\ i >= Len(b) - 1 /\ b[Len(b)] = "="

DecodeGroup(g) ==
    IF g[3] = "="
    THEN <<Base64Value(g[1]) * 4 + Base64Value(g[2]) \div 16>>
    ELSE IF g[4] = "="
    THEN <<Base64Value(g[1]) * 4 + Base64Value(g[2]) \div 16,
           (Base64Value(g[2]) % 16) * 16 + Base64Value(g[3]) \div 4>>
    ELSE <<Base64Value(g[1]) * 4 + Base64Value(g[2]) \div 16,
           (Base64Value(g[2]) % 16) * 16 + Base64Value(g[3]) \div 4,
           (Base64Value(g[3]) % 4) * 64 + Base64Value(g[4])>>

RECURSIVE DecodeString(_)
DecodeString(b) ==
    IF Len(b) = 0 THEN <<>>
    ELSE DecodeGroup(SubSeq(b, 1, 4)) \o DecodeString(SubSeq(b, 5, Len(b)))

\* b is the padded base64 text of the bytes data.
IsBase64Of(b, data) ==
    /\ IsBase64Text(b)
    /\ Len(b) = 4 * ((Len(data) + 2) \div 3)
    /\ DecodeString(b) = data

\* out is the reference in with its target replaced by the data URI of data.
IsEmbeddingOf(out, in, data) ==
    /\ out.text = in.text
    /\ out.whole = <<"!", "[">> \o out.text \o <<"]", "(">> \o out.target \o <<")">>
    /\ HasPrefix(out.target, DataPrefix \o ExpectedMime(in.target) \o Base64Tag)
    /\ IsBase64Of(SubSeq(out.target,
                         Len(DataPrefix \o ExpectedMime(in.target) \o Base64Tag) + 1,
                         Len(out.target)),
                  data)

IsEmbeddable(r, baseDir, files) ==
    /\ ~IsHttpURL(r.target)
    /\ ~IsDataURI(r.target)
    /\ Readable(files, Join(baseDir, r.target))

KthEmbedded(ins, outs, k, baseDir, files) ==
    /\ k <= Len(outs)
    /\ IsEmbeddingOf(outs[k], ins[k], ReadFile(files, Join(baseDir, ins[k].target)).data)

ReadableImagesEmbedded(in, ins, out, outs, baseDir, files) ==
    /\ SamePlaces(in, ins, out, outs)
    /\ \A k \in DOMAIN ins :
          IsEmbeddable(ins[k], baseDir, files)
              => KthEmbedded(ins, outs, k, baseDir, files)

\* C3: embedImages replaces every image whose target does not start with
\* http://, https:// or data: and names, joined to the source file's
\* directory, a readable file by `![alt](data:<mime>;base64,<b64>)`: alt
\* unchanged, <b64> the padded standard base64 of the file's bytes (decoding
\* it gives the bytes back), <mime> the table's entry for the lower-cased
\* extension of the target, image/png when the table has none.
C3_ReadableImageEmbedded ==
    ImagesEmbedded =>
        ReadableImagesEmbedded(linkedContent, ImagesOf(linkedContent),
                               processedContent, ImagesOf(processedContent),
                               inputDir, fs)

\* An image with an upper-case extension of the table, on a file whose
\* length is not a multiple of three, has been embedded.
C3_PaddedUpperCaseEmbedded ==
    /\ ImagesEmbedded
    /\ \E k \in DOMAIN ImagesOf(linkedContent) :
          /\ IsEmbeddable(ImagesOf(linkedContent)[k], inputDir, fs)
          /\ Extension(ImagesOf(linkedContent)[k].target)
                # ToLower(Extension(ImagesOf(linkedContent)[k].target))
          /\ ExpectedMime(ImagesOf(linkedContent)[k].target) # <<"i", "m", "a", "g", "e", "/", "p", "n", "g">>
          /\ ImagesOf(processedContent)[k].target[Len(ImagesOf(processedContent)[k].target)]
                = "="

IsSkippedImage(r) == IsHttpURL(r.target) \/ IsDataURI(r.target)

NoReadFor(log, r) == \A i \in DOMAIN log : log[i].for # r.target

SkippedImagesKept(in, ins, out, outs, log) ==
    /\ SamePlaces(in, ins, out, outs)
    /\ \A k \in DOMAIN ins :
          IsSkippedImage(ins[k]) => KthKept(ins, outs, k) /\ NoReadFor(log, ins[k])
    /\ (\A k \in DOMAIN ins : IsSkippedImage(ins[k])) => out = in /\ log = <<>>

\* embedImages on its own output changes no image that is already embedded.
EmbeddedImagesStay(out, outs, again) ==
    \A k \in DOMAIN outs :
        IsDataURI(outs[k].target) => KthKept(outs, ImagesOf(again), k)

\* C10: whatever the files are, embedImages leaves every image whose target
\* starts with http://, https:// or data: unchanged and reads no file for
\* it; a text whose images are all such comes back unchanged; and
\* embedImages applied to its own output changes no embedded image.
C10_SkippedImagesUntouched ==
    ImagesEmbedded =>
        /\ SkippedImagesKept(linkedContent, ImagesOf(linkedContent),
                             processedContent, ImagesOf(processedContent), reads)
        /\ EmbeddedImagesStay(processedContent, ImagesOf(processedContent),
                              embedImages(processedContent, inputDir, fs).result)

\* A data: image has been kept next to an image that has been embedded.
C10_DataImageKeptBesideEmbedded ==
    /\ ImagesEmbedded
    /\ \E k \in DOMAIN ImagesOf(linkedContent) :
          /\ IsDataURI(ImagesOf(linkedContent)[k].target)
          /\ KthKept(ImagesOf(linkedContent), ImagesOf(processedContent), k)
    /\ \E k \in DOMAIN ImagesOf(linkedContent) :
          /\ ~IsSkippedImage(ImagesOf(linkedContent)[k])
          /\ KthChanged(ImagesOf(linkedContent), ImagesOf(processedContent), k)

-----------------------------------------------------------------------------
(* The run of the program (claims C4, C6, C7, C8), over Spec.               *)

\* What flag.Parse makes of the command line.
ParsedArgs == FlagParse(args, DefaultFont, <<>>)

\* The output file holds the document: it has been written, and the write
\* has succeeded.
Written ==
    /\ Len(writes) = 1
    /\ writable
    /\ ReadFile(fs, outputFile) = [ok |-> TRUE, data |-> fullHTML]

IsUnreadable(r, baseDir, files) ==
    /\ ~IsHttpURL(r.target)
    /\ ~IsDataURI(r.target)
    /\ ~Readable(files, Join(baseDir, r.target))

Warned(out, r) == \E i \in DOMAIN out : out[i] = [kind |-> "warning", what |-> r.target]

UnreadableImagesKept(ins, outs, out, baseDir, files) ==
    \A k \in DOMAIN ins :
        IsUnreadable(ins[k], baseDir, files) =>
            /\ KthKept(ins, outs, k)
            /\ Warned(out, ins[k])
            /\ \A j \in DOMAIN ins :
                  j > k /\ IsEmbeddable(ins[j], baseDir, files)
                      => KthEmbedded(ins, outs, j, baseDir, files)

HasUnreadable(ins, baseDir, files) ==
    \E k \in DOMAIN ins : IsUnreadable(ins[k], baseDir, files)

\* The run goes on after an image could not be read, up to the write.
GoesOnToWrite ==
    /\ pc # "images" => ImagesEmbedded
    /\ Exited => Len(writes) = 1 /\ writes[1].path = outputFile

UnreadableImageKept ==
    ImagesEmbedded =>
        UnreadableImagesKept(ImagesOf(linkedContent), ImagesOf(processedContent),
                             stdout, inputDir, fs)

RunHasUnreadable ==
    /\ Linked
    /\ HasUnreadable(ImagesOf(linkedContent), inputDir, fs)

\* C4 as stated: when the file of a local image cannot be read, embedImages
\* leaves the image as it was, prints a warning and still embeds every later
\* readable image; it returns no error, the conversion goes on to render and
\* write the output file, and the run exits with status 0.
C4_UnreadableImageExitsZero ==
    /\ UnreadableImageKept
    /\ RunHasUnreadable => GoesOnToWrite /\ (Exited => exitCode = 0)

\* C4: when the file of a local image cannot be read, embedImages leaves the
\* image as it was, prints a warning and still embeds every later readable
\* image; it returns no error, the conversion goes on to render and to the
\* write of the output file, and the run exits with status 0 when that write
\* succeeds and with status 1 when it fails.
C4_UnreadableImageKept ==
    /\ UnreadableImageKept
    /\ RunHasUnreadable =>
          /\ GoesOnToWrite
          /\ Exited => exitCode = (IF writable THEN 0 ELSE 1)

\* A run with an unreadable image before a readable one has exited with
\* status 0.
C4_UnreadableThenEmbedded ==
    /\ Exited
    /\ exitCode = 0
    /\ \E k \in DOMAIN ImagesOf(linkedContent) :
          /\ IsUnreadable(ImagesOf(linkedContent)[k], inputDir, fs)
          /\ \E j \in DOMAIN ImagesOf(linkedContent) :
                /\ j > k
                /\ IsEmbeddable(ImagesOf(linkedContent)[j], inputDir, fs)

\* No file has been read, and no output file created or written.
NoFileIO ==
    /\ reads = <<>>
    /\ writes = <<>>
    /\ \A p \in DOMAIN fs : ~HasSuffix(p, HtmlSuffix)

\* main's two argument errors.
IsUsageError(rest) == rest = <<>> \/ ~HasSuffix(rest[1], MdSuffix)

\* The command line holds no input argument: flag.Parse leaves none, having
\* come to the end of a command line of flags and their values.
StartedWithoutInput ==
    /\ ParsedArgs.rest = <<>>
    /\ \/ ParsedArgs.status = "ok"
       \/ \A i \in DOMAIN args : HasPrefix(args[i], <<"-">>)

StartedWithWrongInput ==
    /\ ParsedArgs.status = "ok"
    /\ ParsedArgs.rest # <<>>
    /\ ~HasSuffix(ParsedArgs.rest[1], MdSuffix)

\* C6 as stated: started with no input argument, or with one that does not
\* end with .md, the program exits with status 1 without any file I/O.
C6_NoInputExitsOne ==
    StartedWithoutInput \/ StartedWithWrongInput =>
        /\ NoFileIO
        /\ pc \in {"main", "exited"}
        /\ Exited => exitCode = 1

\* C6: when the flags parse and there is no input argument, or the input
\* argument does not end with .md, the program exits with status 1 without
\* any file I/O; when the flags do not parse it exits before it looks at the
\* arguments, also without file I/O, with status 2 (-h, -help: 0 or 2).
C6_UsageErrorNoIO ==
    /\ ParsedArgs.status = "ok" /\ IsUsageError(ParsedArgs.rest) =>
          /\ NoFileIO
          /\ pc \in {"main", "exited"}
          /\ Exited => exitCode = 1
    /\ ParsedArgs.status # "ok" =>
          /\ NoFileIO
          /\ pc \in {"main", "exited"}
          /\ Exited => exitCode \in (IF ParsedArgs.status = "help" THEN {0, 2} ELSE {2})

\* A run on an input argument that does not end with .md has exited.
C6_WrongExtensionExited ==
    /\ Exited
    /\ StartedWithWrongInput
    /\ exitCode = 1

-----------------------------------------------------------------------------
(* The stages of a run (claim C7) and its exit status (claim C8).           *)

StageOrder == <<"read", "links", "images", "render", "assemble", "write">>

\* The stage has left its result.
StageDone(p) ==
    CASE p = "read" -> mdContent # Unset
      [] p = "links" -> linkedContent # Unset
      [] p = "images" -> processedContent # Unset
      [] p = "render" -> htmlBody # Unset
      [] p = "assemble" -> fullHTML # Unset
      [] OTHER -> TRUE

\* A run moves from a stage to the next one, or ends.
StageStep ==
    pc' # pc =>
        \/ pc = "main" /\ pc' \in {StageOrder[1], "exited"}
        \/ \E i \in 1..(Len(StageOrder) - 1) :
              /\ pc = StageOrder[i]
              /\ pc' = StageOrder[i + 1]
              /\ StageDone(StageOrder[i])'
        \/ pc' = "exited" /\ \E i \in DOMAIN StageOrder : StageOrder[i] = pc

\* A result is left by its own stage alone, once, on the result before it.
StageResults ==
    /\ mdContent' # mdContent => pc = "read" /\ mdContent = Unset
    /\ linkedContent' # linkedContent =>
          pc = "links" /\ linkedContent = Unset /\ StageDone("read")
    /\ processedContent' # processedContent =>
          pc = "images" /\ processedContent = Unset /\ StageDone("links")
    /\ htmlBody' # htmlBody =>
          pc = "render" /\ htmlBody = Unset /\ StageDone("images")
    /\ fullHTML' # fullHTML =>
          pc = "assemble" /\ fullHTML = Unset /\ StageDone("render")

\* The output file is written by the last stage alone, once, and holds the
\* assembled document.
WrittenLast ==
    /\ writes' # writes =>
          /\ pc = "write"
          /\ \A i \in 1..(Len(StageOrder) - 1) : StageDone(StageOrder[i])
          /\ writes = <<>>
          /\ writes' = <<[path |-> outputFile, data |-> fullHTML]>>
          /\ pc' = "exited"
    /\ fs' # fs => writes' # writes /\ DOMAIN fs' = DOMAIN fs \cup {Clean(outputFile)}
    /\ (writes' = <<>> => \A p \in DOMAIN fs' : ~HasSuffix(p, HtmlSuffix))

\* C7: in every run the stages execute in the order read input, link
\* rewriter, image embedder, render, document assembler, write output, each
\* at most once; the output file is written at most once and only after all
\* earlier stages have completed; a run that ends with an error before the
\* write stage has not created or modified the output file.
C7_StagesInOrder == [][StageStep /\ StageResults /\ WrittenLast]_vars

\* A run has gone through every stage and written the output file.
C7_AllStagesRun ==
    /\ Exited
    /\ \A i \in DOMAIN StageOrder : StageDone(StageOrder[i])
    /\ Written

SuccessPrinted == \E i \in DOMAIN stdout : stdout[i].kind = "success"

InputUnreadable == ~Readable(fs, inputFile)

WriteFailed == writes # <<>> /\ ~writable

\* C8 as stated: the exit status is 0 exactly when the output file was
\* written successfully and 1 when the input argument is missing or does not
\* end with .md, when the input file cannot be read and when the output file
\* cannot be written; no run ends with another status, and the success line
\* is printed only on status 0.
C8_ExitZeroIffWritten ==
    Exited =>
        /\ exitCode \in {0, 1}
        /\ exitCode = 0 <=> Written
        /\ StartedWithoutInput \/ StartedWithWrongInput => exitCode = 1
        /\ SuccessPrinted => exitCode = 0

\* C8: a run whose flags parse ends with status 0 exactly when the output
\* file was written successfully and with status 1 otherwise: when the input
\* argument is missing or does not end with .md, when the input file cannot
\* be read, when the output file cannot be written.  A run whose flags do
\* not parse writes no output file and ends with status 2 (-h, -help: 0 or
\* 2).  The success line is printed only on status 0, the output file
\* written.
C8_ExitStatus ==
    Exited =>
        /\ ParsedArgs.status = "ok" =>
              /\ exitCode \in {0, 1}
              /\ exitCode = 0 <=> Written
              /\ IsUsageError(ParsedArgs.rest) => exitCode = 1
              /\ ~IsUsageError(ParsedArgs.rest) /\ InputUnreadable => exitCode = 1
              /\ WriteFailed => exitCode = 1
        /\ ParsedArgs.status # "ok" =>
              /\ ~Written
              /\ exitCode \in (IF ParsedArgs.status = "help" THEN {0, 2} ELSE {2})
        /\ SuccessPrinted => exitCode = 0 /\ Written

\* A run has ended with status 1 on a failed write of the output file.
C8_WriteFailureExited ==
    /\ Exited
    /\ WriteFailed
    /\ exitCode = 1

=============================================================================
